---- MODULE Spec2Model ----
(***************************************************************************)
(* Songolo: a song catalog stored in a git repository (songolo/songs.py).  *)
(* The repository is modelled at the level of the git commands the code    *)
(* runs: commits (message, parent, tree), branch refs, HEAD, the index and *)
(* the working tree.  README.md is in every tree, is never an mp3 and is   *)
(* never read back, so trees map only the <snowflake>.mp3 files.  Each git *)
(* command is one atomic step (git holds index.lock for one command); the  *)
(* library takes no lock of its own, so the steps of two calls interleave. *)
(***************************************************************************)
EXTENDS Integers, Sequences, FiniteSets, TLC

\* ---------------------------------------------------------------- bounds
MaxCommits == 5

\* ------------------------------------------------------------- constants
None == "None"
prefix == "[Songolo] "
ForeignPrefix == ""
Actor == "Songolo Storage"
ForeignAuthor == "someone else"
BranchChoices == {"master", "main"}
Snowflakes == {"x", "y"}
Bytes == {"b0", "b1"}
Sources == {"youtube", "spotify", "upload", "other"}
Procs == {"p1", "p2"}

\* ---------------------------------------------------------------- MetaData
Fields == {"artist", "title", "album", "album_artist", "genre", "year",
           "composer", "extras"}

MetaData(artist, title, album, extras) ==
    [artist |-> artist, title |-> title, album |-> album,
     album_artist |-> None, genre |-> None, year |-> None,
     composer |-> None, extras |-> extras]

\* dict.get(key) on a mapping modelled as a function
Get(d, k) == IF k \in DOMAIN d THEN d[k] ELSE None

MetaLink(meta) == Get(meta.extras, "link")

MetaSnowflake(meta) == Get(meta.extras, "snowflake")

\* bool(value) of one metadata field: None, "" and {} are falsy
Truthy(f, v) == IF f = "extras" THEN DOMAIN v # {} ELSE v \notin {None, ""}

\* MetaData.dict(): only the fields whose value is truthy
MetaDict(meta) ==
    [f \in {g \in Fields : Truthy(g, meta[g])} |-> meta[f]]

\* MetaData(**details): absent fields take their defaults
MetaFromDetails(d) ==
    [f \in Fields |-> IF f \in DOMAIN d THEN d[f]
                      ELSE IF f = "extras" THEN <<>> ELSE None]

\* The songs a caller constructs (all carry a snowflake: Song.__init__ needs it)
X1 == MetaData("A", "T", None, [snowflake |-> "x"])
X2 == MetaData("A", "T", "L", [snowflake |-> "x", link |-> "http://yt"])
Y1 == MetaData("B", "U", "", [snowflake |-> "y", link |-> "http://yt"])
MetaInputs == {X1, X2, Y1}

\* ---------------------------------------------------------------- names
\* Not the code: a branch name that does not follow the identity (every song
\* on the branch of the first one)
branch_shared(meta) == "song/" \o "x"

branch(meta) == "song/" \o MetaSnowflake(meta)

filename(meta) == MetaSnowflake(meta) \o ".mp3"

SongBranches == {"song/" \o s : s \in Snowflakes}
Files == {s \o ".mp3" : s \in Snowflakes}
BranchNames == BranchChoices \cup SongBranches

\* ---------------------------------------------------------------- files
NoFile == [data |-> "NOFILE", tags |-> <<>>]
EmptyFile == [data |-> "", tags |-> <<>>]
FileOf(bytes) == [data |-> bytes, tags |-> <<>>]
EmptyTree == [f \in Files |-> NoFile]

\* ------------------------------------------------------------ entry codec
\* A commit message is <prefix><text>; text is modelled by what json.loads makes
\* of it: an object (with its value), another JSON value, or not JSON at all.
json_dumps(v) == [kind |-> "object", value |-> v]

Message(p, text) == [prefix |-> p, text |-> text]

InitMessage == Message(prefix, json_dumps([job |-> "init", details |-> <<>>]))

CleanseMessage ==
    Message(prefix, json_dumps([entry |-> "cleanse", details |-> <<>>]))

SongMessage(meta) ==
    Message(prefix, json_dumps([entry |-> "song", details |-> MetaDict(meta)]))

ForeignMessages ==
    { Message(ForeignPrefix, [kind |-> "invalid", value |-> <<>>]),
      Message(prefix, [kind |-> "invalid", value |-> <<>>]),
      Message(prefix, [kind |-> "array", value |-> <<>>]),
      Message(prefix, json_dumps([entry |-> "note", details |-> <<>>])),
      SongMessage(X1) }

NoContent == [data |-> "NONE", tags |-> <<>>]

VARIABLES
    initial_branch,  \* Library.initial_branch
    repo,            \* the git repository under Library.storagepath:
                     \*   commits   the object store: commit id (1..Len) -> commit
                     \*   branches  refs/heads: name -> commit id, 0 = no such branch
                     \*   head      HEAD: [branch, commit]; branch = None when detached
                     \*   index     the staging area: file -> blob
                     \*   wt        the working tree: file -> blob
                     \*   mergeHead .git/MERGE_HEAD exists
                     \*   unmerged  the index holds conflicted entries
    pc,              \* per caller: the step it is at
    song,            \* per caller: the Song it holds (meta, content)
    args,            \* per caller: the call in progress (op, source, override_meta)
    found            \* per caller: load_song_content's commit and content

vars == <<initial_branch, repo, pc, song, args, found>>

\* ------------------------------------------------------------ git plumbing
HeadCommit(r) ==
    IF r.head.branch # None THEN r.branches[r.head.branch] ELSE r.head.commit

Tree(r, c) == IF c = 0 THEN EmptyTree ELSE r.commits[c].tree

\* The commits reachable from c, oldest first (every commit the library makes
\* has at most one parent: IndexFile.commit takes [HEAD] as the parents)
RECURSIVE Chain(_, _)
Chain(r, c) ==
    IF c = 0 THEN <<>> ELSE Append(Chain(r, r.commits[c].parent), c)

Ancestors(r, c) == {Chain(r, c)[i] : i \in DOMAIN Chain(r, c)}

Max(S) == CHOOSE m \in S : \A n \in S : n <= m

MergeBase(r, a, b) ==
    LET common == Ancestors(r, a) \cap Ancestors(r, b)
    IN  IF common = {} THEN 0 ELSE Max(common)

Fail(r) == [ok |-> FALSE, repo |-> r]
Done(r) == [ok |-> TRUE, repo |-> r]

\* git's two-way merge of the index and working tree when HEAD goes from
\* commit h to commit m: a file that is the same in both keeps its local
\* state; a file that differs must be clean (or already as in m)
TwoWayOK(r, h, m) ==
    /\ ~r.unmerged
    /\ \A f \in Files :
          \/ Tree(r, h)[f] = Tree(r, m)[f]
          \/ r.index[f] = Tree(r, h)[f] /\ r.wt[f] = r.index[f]
          \/ r.index[f] = Tree(r, m)[f] /\ r.wt[f] = r.index[f]

TwoWay(r, h, m) ==
    [r EXCEPT
       !.index = [f \in Files |-> IF Tree(r, h)[f] = Tree(r, m)[f]
                                  THEN r.index[f] ELSE Tree(r, m)[f]],
       !.wt = [f \in Files |-> IF Tree(r, h)[f] = Tree(r, m)[f]
                               THEN r.wt[f] ELSE Tree(r, m)[f]]]

\* git checkout <branch>: switching also removes the merge state
git_checkout(r, b) ==
    IF r.branches[b] = 0 \/ ~TwoWayOK(r, HeadCommit(r), r.branches[b])
    THEN Fail(r)
    ELSE Done([TwoWay(r, HeadCommit(r), r.branches[b]) EXCEPT
                 !.head = [branch |-> b, commit |-> 0],
                 !.mergeHead = FALSE])

\* git checkout -b <branch> <commit>
git_checkout_b(r, b, c) ==
    IF r.branches[b] # 0 \/ ~TwoWayOK(r, HeadCommit(r), c)
    THEN Fail(r)
    ELSE Done([TwoWay(r, HeadCommit(r), c) EXCEPT
                 !.head = [branch |-> b, commit |-> 0],
                 !.branches[b] = c,
                 !.mergeHead = FALSE])

\* git checkout <commit>: detached HEAD
git_checkout_commit(r, c) ==
    IF ~TwoWayOK(r, HeadCommit(r), c)
    THEN Fail(r)
    ELSE Done([TwoWay(r, HeadCommit(r), c) EXCEPT
                 !.head = [branch |-> None, commit |-> c],
                 !.mergeHead = FALSE])

\* git reset --hard: index and tracked files as in HEAD; untracked files stay
git_reset_hard(r) ==
    Done([r EXCEPT
            !.index = Tree(r, HeadCommit(r)),
            !.wt = [f \in Files |->
                      IF r.index[f] = NoFile /\ Tree(r, HeadCommit(r))[f] = NoFile
                      THEN r.wt[f] ELSE Tree(r, HeadCommit(r))[f]],
            !.mergeHead = FALSE,
            !.unmerged = FALSE])

\* git rm <files>
git_rm(r, fs) ==
    [r EXCEPT !.index = [f \in Files |-> IF f \in fs THEN NoFile ELSE r.index[f]],
              !.wt = [f \in Files |-> IF f \in fs THEN NoFile ELSE r.wt[f]]]

\* repo.index.add([file]): stages the working-tree file; a missing file raises
index_add(r, f) ==
    IF r.wt[f] = NoFile THEN Fail(r)
    ELSE Done([r EXCEPT !.index[f] = r.wt[f]])

\* HEAD (its branch when on one) now points at commit c
MoveHead(r, c) ==
    IF r.head.branch # None
    THEN [r EXCEPT !.branches[r.head.branch] = c]
    ELSE [r EXCEPT !.head.commit = c]

\* repo.index.commit(message): a commit of the index whose only parent is
\* HEAD (MERGE_HEAD is neither read nor removed); unmerged entries raise
index_commit(r, message, author) ==
    IF r.unmerged THEN Fail(r)
    ELSE Done(MoveHead(
           [r EXCEPT !.commits = Append(r.commits,
                        [parent |-> HeadCommit(r), message |-> message,
                         author |-> author, tree |-> r.index])],
           Len(r.commits) + 1))

\* Three-way merge of one file
Merge3(base, ours, theirs) ==
    IF theirs = base \/ ours = theirs THEN ours ELSE theirs

Conflicts(r, b, h, t) ==
    {f \in Files : /\ Tree(r, h)[f] # Tree(r, t)[f]
                   /\ Tree(r, h)[f] # Tree(r, b)[f]
                   /\ Tree(r, t)[f] # Tree(r, b)[f]}

Merged(r, b, h, t) ==
    [f \in Files |-> Merge3(Tree(r, b)[f], Tree(r, h)[f], Tree(r, t)[f])]

\* git merge <branch> --no-commit
git_merge(r, b) ==
    LET h == HeadCommit(r)
        t == r.branches[b]
        base == MergeBase(r, h, t)
        m == Merged(r, base, h, t)
        cf == Conflicts(r, base, h, t)
    IN  IF t = 0 \/ r.mergeHead \/ r.unmerged THEN Fail(r)
        ELSE IF t \in Ancestors(r, h) THEN Done(r)       \* already up to date
        ELSE IF h \in Ancestors(r, t)                    \* fast-forward
        THEN IF TwoWayOK(r, h, t) THEN Done(MoveHead(TwoWay(r, h, t), t))
             ELSE Fail(r)
        ELSE IF \/ r.index # Tree(r, h)
                \/ \E f \in Files : m[f] # Tree(r, h)[f] /\ r.wt[f] # Tree(r, h)[f]
        THEN Fail(r)
        ELSE [ok |-> cf = {},
              repo |-> [r EXCEPT
                 !.index = [f \in Files |-> IF f \in cf THEN r.index[f] ELSE m[f]],
                 !.wt = [f \in Files |-> IF f \in cf \/ m[f] = Tree(r, h)[f]
                                         THEN r.wt[f] ELSE m[f]],
                 !.mergeHead = TRUE,
                 !.unmerged = cf # {}]]

\* ------------------------------------------------------- history replay
\* Library.commit_data_history: one item per commit of the canonical branch,
\* oldest first.  A message without the prefix is skipped; json.loads raises
\* on text that is not JSON; anything else is yielded as (commit, data).
HistoryItem(r, c) ==
    LET m == r.commits[c].message
    IN  [commit |-> c,
         status |-> IF m.prefix # prefix THEN "skip"
                    ELSE IF m.text.kind = "invalid" THEN "raise"
                    ELSE "data",
         object |-> m.text.kind = "object",
         data |-> m.text.value]

commit_data_history(r, ib) ==
    [i \in DOMAIN Chain(r, r.branches[ib]) |->
        HistoryItem(r, Chain(r, r.branches[ib])[i])]

\* The consumer's data.get(...) raises on JSON that is not an object
ItemRaises(it) == it.status = "raise" \/ (it.status = "data" /\ ~it.object)

Entry(it) == IF it.status = "data" THEN Get(it.data, "entry") ELSE None

Details(it) == IF "details" \in DOMAIN it.data THEN it.data.details ELSE <<>>

\* The first position of h at which the loop raises or returns (matches: the
\* positions whose item makes the loop return), else Len(h)+1
FirstStop(h, matches) ==
    LET S == {i \in DOMAIN h : ItemRaises(h[i]) \/ i \in matches}
    IN  IF S = {} THEN Len(h) + 1 ELSE CHOOSE i \in S : \A j \in S : i <= j

IsImport(it) == Entry(it) = "import"

\* Library.songs(): the metadata of the Songs yielded before the generator
\* ends or raises
songs(r, ib) ==
    LET h == commit_data_history(r, ib)
        stop == FirstStop(h, {})
        seen == SelectSeq(SubSeq(h, 1, stop - 1), IsImport)
    IN  [raised |-> stop <= Len(h),
         value |-> [i \in DOMAIN seen |-> MetaFromDetails(Details(seen[i]))]]

NoSong == <<>>

\* Library.get_song(snowflake)
get_song(r, ib, snowflake) ==
    LET h == commit_data_history(r, ib)
        matches == {i \in DOMAIN h :
                      /\ ~ItemRaises(h[i])
                      /\ IsImport(h[i])
                      /\ Get(Details(h[i]), "snowflake") = snowflake}
        stop == FirstStop(h, matches)
    IN  IF stop > Len(h) THEN [raised |-> FALSE, value |-> NoSong]
        ELSE IF ItemRaises(h[stop]) THEN [raised |-> TRUE, value |-> NoSong]
        ELSE [raised |-> FALSE, value |-> MetaFromDetails(Details(h[stop]))]

\* Song.exists_in_history: the first "song" entry whose details equal the
\* Song's own non-empty metadata
exists_in_history(r, ib, meta) ==
    LET h == commit_data_history(r, ib)
        matches == {i \in DOMAIN h :
                      /\ ~ItemRaises(h[i])
                      /\ Entry(h[i]) = "song"
                      /\ DOMAIN Details(h[i]) # {}
                      /\ MetaDict(meta) = Details(h[i])}
        stop == FirstStop(h, matches)
    IN  IF stop > Len(h) THEN [raised |-> FALSE, exists |-> FALSE, commit |-> 0]
        ELSE IF ItemRaises(h[stop])
        THEN [raised |-> TRUE, exists |-> FALSE, commit |-> 0]
        ELSE [raised |-> FALSE, exists |-> TRUE, commit |-> h[stop].commit]

\* ------------------------------------------------------------ the callers
NoSongObject == [meta |-> <<>>, content |-> NoContent]
NoArgs == [op |-> None, source |-> None, override_meta |-> FALSE, at |-> None]
NoFound == [commit |-> 0, content |-> NoContent]

InCall(p) == pc[p] \notin {"idle", "ready", "returned", "raised"}

\* Library.__init__ on a directory with no repository yet: git init with
\* HEAD on the unborn initial branch, then first_commit
EmptyRepo(ib) ==
    [commits |-> <<>>,
     branches |-> [b \in BranchNames |-> 0],
     head |-> [branch |-> ib, commit |-> 0],
     index |-> EmptyTree,
     wt |-> EmptyTree,
     mergeHead |-> FALSE,
     unmerged |-> FALSE]

\* Library.first_commit: README.md is added and committed on HEAD
first_commit(r) == index_commit(r, InitMessage, Actor)

\* Library.__init__: the bootstrap commit is made when the revision "master"
\* does not resolve
LibraryInit(r) ==
    IF r.branches["master"] # 0 THEN Done(r) ELSE first_commit(r)

Init ==
    /\ initial_branch = "master"
    /\ repo = LibraryInit(EmptyRepo(initial_branch)).repo
    /\ pc = [p \in Procs |-> "idle"]
    /\ song = [p \in Procs |-> NoSongObject]
    /\ args = [p \in Procs |-> NoArgs]
    /\ found = [p \in Procs |-> NoFound]

\* The call of p ends at step pc[p]: it returns ("returned") or raises
\* ("raised").  args[p].at keeps the step, found[p].content the value of
\* load_song_content, until the caller moves on (Exit).
Finish(p, status, content) ==
    /\ pc' = [pc EXCEPT ![p] = status]
    /\ song' = [song EXCEPT ![p].content = content]
    /\ args' = [args EXCEPT ![p].at = pc[p]]
    /\ UNCHANGED found

Raise(p) == Finish(p, "raised", song[p].content)

Return(p) == Finish(p, "returned", song[p].content)

\* After the call: a constructor that returned leaves its caller with a Song
Exit(p) ==
    /\ pc[p] \in {"returned", "raised"}
    /\ pc' = [pc EXCEPT ![p] =
                IF args[p].op = "ctor" /\ pc[p] = "returned" THEN "ready"
                ELSE "idle"]
    /\ song' = [song EXCEPT ![p] =
                  IF args[p].op = "ctor" /\ pc[p] = "returned" THEN @
                  ELSE NoSongObject]
    /\ args' = [args EXCEPT ![p] = NoArgs]
    /\ found' = [found EXCEPT ![p] = NoFound]
    /\ UNCHANGED <<initial_branch, repo>>

\* The call of p goes on to step next
Goto(p, next) ==
    /\ pc' = [pc EXCEPT ![p] = next]
    /\ UNCHANGED <<song, args, found>>

\* One git command of p's call: on success the call goes on, on failure
\* (GitCommandError and the like) it raises with the repository as git left it
Step(p, res, next) ==
    /\ repo' = res.repo
    /\ IF res.ok THEN Goto(p, next) ELSE Raise(p)

\* ---------------------------------------------------------- Song.__init__
\* Song(library=..., meta=..., content=...): with no content given the
\* constructor calls library.load_song_content(self)
NewSong(p, meta, content) ==
    /\ pc[p] = "idle"
    /\ song' = [song EXCEPT ![p] = [meta |-> meta, content |-> content]]
    /\ args' = [args EXCEPT ![p] =
                  IF content = NoContent THEN [NoArgs EXCEPT !.op = "ctor"]
                  ELSE NoArgs]
    /\ pc' = [pc EXCEPT ![p] = IF content = NoContent THEN "ld_find" ELSE "ready"]
    /\ UNCHANGED <<initial_branch, repo, found>>

\* The caller lets go of its Song
Drop(p) ==
    /\ pc[p] = "ready"
    /\ pc' = [pc EXCEPT ![p] = "idle"]
    /\ song' = [song EXCEPT ![p] = NoSongObject]
    /\ UNCHANGED <<initial_branch, repo, args, found>>

\* ------------------------------------------------ Library.load_song_content

\* exists, commit = song.exists_in_history
LdFind(p) ==
    /\ pc[p] = "ld_find"
    /\ LET e == exists_in_history(repo, initial_branch, song[p].meta)
       IN  IF e.raised THEN Raise(p)
           ELSE IF ~e.exists THEN Return(p)
           ELSE /\ found' = [found EXCEPT ![p].commit = e.commit]
                /\ pc' = [pc EXCEPT ![p] = "ld_checkout"]
                /\ UNCHANGED <<song, args>>
    /\ UNCHANGED <<initial_branch, repo>>

\* self.repo.git.checkout(commit)
LdCheckout(p) ==
    /\ pc[p] = "ld_checkout"
    /\ Step(p, git_checkout_commit(repo, found[p].commit), "ld_reset")
    /\ UNCHANGED initial_branch

\* self.repo.git.reset(hard=True)
LdReset(p) ==
    /\ pc[p] = "ld_reset"
    /\ Step(p, git_reset_hard(repo), "ld_read")
    /\ UNCHANGED initial_branch

\* with open(song.filepath, "rb") as file: content = file.read()
LdRead(p) ==
    /\ pc[p] = "ld_read"
    /\ IF repo.wt[filename(song[p].meta)] = NoFile THEN Raise(p)
       ELSE /\ found' = [found EXCEPT ![p].content = repo.wt[filename(song[p].meta)]]
            /\ pc' = [pc EXCEPT ![p] = "ld_back"]
            /\ UNCHANGED <<song, args>>
    /\ UNCHANGED <<initial_branch, repo>>

\* self.repo.git.checkout(self.initial_branch); return content, which
\* Song.__init__ assigns to self.content
LdBack(p) ==
    /\ pc[p] = "ld_back"
    /\ LET res == git_checkout(repo, initial_branch)
       IN  /\ repo' = res.repo
           /\ IF res.ok THEN Finish(p, "returned", found[p].content)
              ELSE Raise(p)
    /\ UNCHANGED initial_branch

\* ------------------------------------------------------------ Song.download
\* song.download(source, override_meta)
Download(p, source, override_meta) ==
    /\ pc[p] = "ready"
    /\ args' = [args EXCEPT ![p] = [op |-> "download", source |-> source,
                                    override_meta |-> override_meta,
                                    at |-> None]]
    /\ pc' = [pc EXCEPT ![p] = "dl_checkout"]
    /\ UNCHANGED <<initial_branch, repo, song, found>>

\* The branch song/<snowflake> is created at the canonical commit, or checked
\* out when it is already there
DlCheckout(p) ==
    /\ pc[p] = "dl_checkout"
    /\ Step(p,
            IF repo.branches[branch(song[p].meta)] = 0
            THEN git_checkout_b(repo, branch(song[p].meta),
                                repo.branches[initial_branch])
            ELSE git_checkout(repo, branch(song[p].meta)),
            "dl_fetch")
    /\ UNCHANGED initial_branch

AfterFetch(p) == IF args[p].override_meta THEN "dl_tag" ELSE "dl_add"

\* What the youtube adapter can do: fail, or leave <snowflake>.mp3 with some bytes
YoutubeOutcomes(meta) ==
    IF MetaLink(meta) = None THEN {"error"} ELSE Bytes \cup {"error"}

\* scrape_from_youtube: the file is downloaded, then read into self.content
ScrapeFromYoutube(p, out) ==
    IF out = "error" THEN Raise(p) /\ UNCHANGED repo
    ELSE /\ repo' = [repo EXCEPT !.wt[filename(song[p].meta)] = FileOf(out)]
         /\ song' = [song EXCEPT ![p].content = FileOf(out)]
         /\ pc' = [pc EXCEPT ![p] = AfterFetch(p)]
         /\ UNCHANGED <<args, found>>

\* Not the code: an upload that, finding no content, records a "cleanse" entry
\* on the canonical branch before it raises
WriteUploadCleansing(p) ==
    IF song[p].content = NoContent
    THEN /\ repo' = IF git_checkout(repo, initial_branch).ok
                         /\ Len(repo.commits) < MaxCommits
                    THEN index_commit(git_checkout(repo, initial_branch).repo,
                                      CleanseMessage, Actor).repo
                    ELSE repo
         /\ Raise(p)
    ELSE /\ repo' = [repo EXCEPT !.wt[filename(song[p].meta)] = song[p].content]
         /\ Goto(p, AfterFetch(p))

\* source == "upload": open(filepath, "wb") empties the file, then the content
\* is written, or ValueError is raised when there is none
WriteUpload(p) ==
    IF song[p].content = NoContent
    THEN /\ repo' = [repo EXCEPT !.wt[filename(song[p].meta)] = EmptyFile]
         /\ Raise(p)
    ELSE /\ repo' = [repo EXCEPT !.wt[filename(song[p].meta)] = song[p].content]
         /\ Goto(p, AfterFetch(p))

\* The if/elif chain on source; scrape_from_spotify does nothing, and a source
\* that is none of the three matches no arm
DlFetch(p) ==
    /\ pc[p] = "dl_fetch"
    /\ IF args[p].source = "youtube"
       THEN \E out \in YoutubeOutcomes(song[p].meta) : ScrapeFromYoutube(p, out)
       ELSE IF args[p].source = "upload"
       THEN WriteUpload(p)
       ELSE Goto(p, AfterFetch(p)) /\ UNCHANGED repo
    /\ UNCHANGED initial_branch

\* The tags save_metadata writes: with a link only the comment, else one
\* attribute per non-empty metadata field
Tags(meta) ==
    IF MetaLink(meta) # None THEN [comment |-> MetaLink(meta)]
    ELSE MetaDict(meta)

save_metadata(file, meta) == [file EXCEPT !.tags = Tags(meta) @@ file.tags]

\* eyed3 raises on a missing file and may fail on any other
TagOutcomes(r, meta) ==
    IF r.wt[filename(meta)] = NoFile THEN {FALSE} ELSE {TRUE, FALSE}

\* if override_meta: self.save_metadata()
DlTag(p) ==
    /\ pc[p] = "dl_tag"
    /\ \E ok \in TagOutcomes(repo, song[p].meta) :
          IF ok
          THEN /\ repo' = [repo EXCEPT !.wt[filename(song[p].meta)] =
                              save_metadata(@, song[p].meta)]
               /\ Goto(p, "dl_add")
          ELSE Raise(p) /\ UNCHANGED repo
    /\ UNCHANGED initial_branch

\* commit_file: self.library.repo.index.add([self.filename])
DlAdd(p) ==
    /\ pc[p] = "dl_add"
    /\ Step(p, index_add(repo, filename(song[p].meta)), "dl_commit")
    /\ UNCHANGED initial_branch

\* commit_file: index.commit(prefix + json.dumps({"entry": "song", ...}))
DlCommit(p) ==
    /\ pc[p] = "dl_commit"
    /\ Len(repo.commits) < MaxCommits
    /\ Step(p, index_commit(repo, SongMessage(song[p].meta), Actor), "dl_tomaster")
    /\ UNCHANGED initial_branch

\* Not the code: commit_file going on to the merge without checking out the
\* canonical branch
DlToMasterSkipped(p) ==
    /\ pc[p] = "dl_tomaster"
    /\ Goto(p, "dl_merge")
    /\ UNCHANGED <<initial_branch, repo>>

\* commit_file: git checkout <initial_branch>
DlToMaster(p) ==
    /\ pc[p] = "dl_tomaster"
    /\ Step(p, git_checkout(repo, initial_branch), "dl_merge")
    /\ UNCHANGED initial_branch

\* commit_file: git merge <song branch> --no-commit, then cleanse_master()
DlMerge(p) ==
    /\ pc[p] = "dl_merge"
    /\ Step(p, git_merge(repo, branch(song[p].meta)), "cl_checkout")
    /\ UNCHANGED initial_branch

\* ------------------------------------------------- Library.cleanse_master
Cleanse(p) ==
    /\ pc[p] = "idle"
    /\ args' = [args EXCEPT ![p] = [NoArgs EXCEPT !.op = "cleanse"]]
    /\ pc' = [pc EXCEPT ![p] = "cl_checkout"]
    /\ UNCHANGED <<initial_branch, repo, song, found>>

\* self.repo.git.checkout(self.initial_branch)
ClCheckout(p) ==
    /\ pc[p] = "cl_checkout"
    /\ Step(p, git_checkout(repo, initial_branch), "cl_commit")
    /\ UNCHANGED initial_branch

\* self.path.glob("*.mp3"): the mp3 files directly under the library path.
\* The repository is the directory songs/ under it (storagepath), so none of
\* the working tree's files is among them.
glob_mp3(r) == {f \in Files : FALSE}

\* Not the code: a commit made the way "git commit" makes it, which refuses
\* to record a commit that changes nothing
cleanse_commit_nonempty(r) ==
    IF git_rm(r, glob_mp3(r)).index = Tree(r, HeadCommit(r)) THEN Fail(r)
    ELSE index_commit(git_rm(r, glob_mp3(r)), CleanseMessage, Actor)

\* The git rm loop over the glob, then index.commit of the "cleanse" entry
cleanse_commit(r) == index_commit(git_rm(r, glob_mp3(r)), CleanseMessage, Actor)

ClCommit(p) ==
    /\ pc[p] = "cl_commit"
    /\ Len(repo.commits) < MaxCommits
    /\ repo' = cleanse_commit(repo).repo
    /\ IF cleanse_commit(repo).ok THEN Return(p) ELSE Raise(p)
    /\ UNCHANGED initial_branch

\* --------------------------------------------------------- Library.__init__
\* Library() on the same path again
Open(p) ==
    /\ pc[p] = "idle"
    /\ repo.branches["master"] = 0 => Len(repo.commits) < MaxCommits
    /\ repo' = LibraryInit(repo).repo
    /\ args' = [args EXCEPT ![p] = [NoArgs EXCEPT !.op = "open", !.at = "open"]]
    /\ pc' = [pc EXCEPT ![p] = IF LibraryInit(repo).ok THEN "returned" ELSE "raised"]
    /\ UNCHANGED <<initial_branch, song, found>>

\* ---------------------------------------------------------- the environment
MaxForeign == 1

ForeignCount(r) ==
    Cardinality({c \in DOMAIN r.commits : r.commits[c].author = ForeignAuthor})

\* Somebody else commits in the storage directory (git commit --allow-empty)
\* while it is at rest on the canonical branch
ForeignCommit(m) ==
    /\ \A p \in Procs : ~InCall(p)
    /\ repo.head.branch = initial_branch
    /\ ~repo.mergeHead /\ ~repo.unmerged
    /\ Len(repo.commits) < MaxCommits
    /\ ForeignCount(repo) < MaxForeign
    /\ repo' = index_commit(repo, m, ForeignAuthor).repo
    /\ UNCHANGED <<initial_branch, pc, song, args, found>>

\* ------------------------------------------- calls run without interleaving
\* Library.cleanse_master() from repository r, run to its end
cleanse_master(r, ib) ==
    IF git_checkout(r, ib).ok THEN cleanse_commit(git_checkout(r, ib).repo)
    ELSE Fail(git_checkout(r, ib).repo)

\* Library.load_song_content(song) from repository r, run to its end
load_song_content(r, ib, meta) ==
    LET e == exists_in_history(r, ib, meta)
        c1 == git_checkout_commit(r, e.commit)
        c2 == git_reset_hard(c1.repo)
        content == c2.repo.wt[filename(meta)]
        c3 == git_checkout(c2.repo, ib)
    IN  IF e.raised THEN [raised |-> TRUE, value |-> NoContent, repo |-> r]
        ELSE IF ~e.exists THEN [raised |-> FALSE, value |-> NoContent, repo |-> r]
        ELSE IF ~c1.ok THEN [raised |-> TRUE, value |-> NoContent, repo |-> c1.repo]
        ELSE IF content = NoFile
        THEN [raised |-> TRUE, value |-> NoContent, repo |-> c2.repo]
        ELSE IF ~c3.ok THEN [raised |-> TRUE, value |-> NoContent, repo |-> c3.repo]
        ELSE [raised |-> FALSE, value |-> content, repo |-> c3.repo]

\* ------------------------------------------------------------------- specs
\* A caller's steps: it constructs a Song and downloads it, the Song's
\* metadata, content, source and override_meta drawn from the given sets
Calls(p, metas, contents, sources, overrides) ==
    \/ \E meta \in metas, content \in contents : NewSong(p, meta, content)
    \/ Drop(p)
    \/ Exit(p)
    \/ LdFind(p)
    \/ LdCheckout(p)
    \/ LdReset(p)
    \/ LdRead(p)
    \/ LdBack(p)
    \/ \E source \in sources, override_meta \in overrides :
          Download(p, source, override_meta)
    \/ DlCheckout(p)
    \/ DlFetch(p)
    \/ DlTag(p)
    \/ DlAdd(p)
    \/ DlCommit(p)
    \/ DlToMaster(p)
    \/ DlMerge(p)
    \/ ClCheckout(p)
    \/ ClCommit(p)

\* The steps of a caller that only uploads content it holds
Uploads(p, metas, contents) ==
    \/ \E meta \in metas, content \in contents : NewSong(p, meta, content)
    \/ Exit(p)
    \/ Download(p, "upload", FALSE)
    \/ DlCheckout(p)
    \/ DlFetch(p)
    \/ DlAdd(p)
    \/ DlCommit(p)
    \/ DlToMaster(p)
    \/ DlMerge(p)
    \/ ClCheckout(p)
    \/ ClCommit(p)

\* Calls from any number of threads or worker processes (the library takes
\* no lock): two callers, each uploading songs
Next == \E p \in Procs : Uploads(p, {X1, Y1}, {FileOf("b0")})

Spec == Init /\ [][Next]_vars

\* One caller, one call at a time (main.py; one event loop).  Uploads come
\* with content b0 or without content; the YouTube adapter delivers b0 or b1
\* or raises; tag writing is opted in or out
SeqNext ==
    \/ Calls("p1", {X1, Y1}, {FileOf("b0"), NoContent}, {"upload", "youtube"}, BOOLEAN)
    \/ Cleanse("p1")
    \/ Open("p1")

SeqSpec == Init /\ [][SeqNext]_vars

\* One caller, and somebody else committing in the storage directory
ForeignNext ==
    \/ Uploads("p1", {X1}, {FileOf("b0")})
    \/ \E m \in ForeignMessages : ForeignCommit(m)

ForeignSpec == Init /\ [][ForeignNext]_vars

\* Library(initial_branch=...) on a fresh directory, for either branch name
InitAny ==
    /\ initial_branch \in BranchChoices
    /\ repo = LibraryInit(EmptyRepo(initial_branch)).repo
    /\ pc = [p \in Procs |-> "idle"]
    /\ song = [p \in Procs |-> NoSongObject]
    /\ args = [p \in Procs |-> NoArgs]
    /\ found = [p \in Procs |-> NoFound]

\* One caller that uploads songs and opens the library again and again
OpenNext ==
    \/ Uploads("p1", {X1, Y1}, {FileOf("b0")})
    \/ Open("p1")

OpenSpec == InitAny /\ [][OpenNext]_vars

\* utils.sha256_snowflake(): the hash of 256 random characters and the time;
\* any identity can come out, one already in use included
sha256_snowflake == Snowflakes

\* The caller builds a new Song around a freshly generated identity, as
\* main.py does: the value is used as it comes, nothing looks at the history
Generate(p, metas) ==
    /\ pc[p] = "idle"
    /\ \E id \in sha256_snowflake, meta \in metas :
          /\ MetaSnowflake(meta) = id
          /\ song' = [song EXCEPT ![p] = [meta |-> meta, content |-> FileOf("b0")]]
    /\ args' = [args EXCEPT ![p] = [NoArgs EXCEPT !.op = "generate"]]
    /\ pc' = [pc EXCEPT ![p] = "ready"]
    /\ UNCHANGED <<initial_branch, repo, found>>

\* One caller importing songs under generated identities
GenNext ==
    \/ Generate("p1", {X1, X2, Y1})
    \/ Exit("p1")
    \/ Download("p1", "upload", FALSE)
    \/ DlCheckout("p1")
    \/ DlFetch("p1")
    \/ DlAdd("p1")
    \/ DlCommit("p1")
    \/ DlToMaster("p1")
    \/ DlMerge("p1")
    \/ ClCheckout("p1")
    \/ ClCommit("p1")

GenSpec == Init /\ [][GenNext]_vars

\* One caller whose downloads name any source: the three of the API's Source
\* enum or another string (download takes a plain str)
SrcNext == Calls("p1", {X1, Y1}, {FileOf("b0"), NoContent}, Sources, BOOLEAN)

SrcSpec == Init /\ [][SrcNext]_vars

\* ------------------------------------------------------------------ claims
Returned(p, op) == pc[p] = "returned" /\ args[p].op = op

Raised(p, op) == pc[p] = "raised" /\ args[p].op = op

AtRest == \A p \in Procs : ~InCall(p)

Canonical == repo.branches[initial_branch]

\* C1: once download has returned for a Song, get_song of its snowflake returns
\* a Song (not None) whose metadata has the same non-empty fields.
C1_GetSongAfterDownload ==
    \A p \in Procs :
       Returned(p, "download") =>
          LET g == get_song(repo, initial_branch, MetaSnowflake(song[p].meta))
          IN  /\ ~g.raised
              /\ g.value # NoSong
              /\ MetaDict(g.value) = MetaDict(song[p].meta)

\* C2: when cleanse_master (alone or at the end of download) has returned,
\* neither the working tree nor the tree of the canonical HEAD holds an mp3.
C2_NoBinaryOnCanonical ==
    \A p \in Procs :
       Returned(p, "download") \/ Returned(p, "cleanse") =>
          \A f \in Files :
             repo.wt[f] = NoFile /\ Tree(repo, Canonical)[f] = NoFile

\* C3: when download has returned for content B with tag writing opted out,
\* branch song/<id> holds <id>.mp3 with exactly B and load_song_content
\* returns exactly B.
C3_ContentRoundTrip ==
    \A p \in Procs :
       Returned(p, "download") /\ ~args[p].override_meta
          /\ args[p].source \in {"upload", "youtube"} =>
          /\ Tree(repo, repo.branches[branch(song[p].meta)])[filename(song[p].meta)]
                = song[p].content
          /\ ~load_song_content(repo, initial_branch, song[p].meta).raised
          /\ load_song_content(repo, initial_branch, song[p].meta).value
                = song[p].content

SongCommits == {c \in DOMAIN repo.commits :
                   Entry(HistoryItem(repo, c)) = "song"}

SnowflakeOf(c) == Get(Details(HistoryItem(repo, c)), "extras").snowflake

IsSong(it) == Entry(it) = "song"

CanonicalSongs ==
    SelectSeq(commit_data_history(repo, initial_branch), IsSong)

\* C4: with two downloads of items with distinct identities running at once,
\* every "song" commit is on the branch of its own item and holds only that
\* item's file, and when both have returned the canonical history holds
\* exactly two "song" entries, one per item, each with its item's metadata.
C4_ConcurrentImports ==
    /\ \A c \in SongCommits :
          /\ c \in Ancestors(repo, repo.branches["song/" \o SnowflakeOf(c)])
          /\ \A f \in Files :
                Tree(repo, c)[f] # NoFile => f = SnowflakeOf(c) \o ".mp3"
    /\ \A p, q \in Procs :
          /\ Returned(p, "download") /\ Returned(q, "download")
          /\ MetaSnowflake(song[p].meta) # MetaSnowflake(song[q].meta)
          /\ Cardinality(SongCommits) = 2
          => /\ Len(CanonicalSongs) = 2
             /\ \E i \in 1..2 :
                   /\ Details(CanonicalSongs[i]) = MetaDict(song[p].meta)
                   /\ Details(CanonicalSongs[3 - i]) = MetaDict(song[q].meta)

\* The part of a call between its first git command and its return
InSequence(p) ==
    pc[p] \in {"dl_fetch", "dl_tag", "dl_add", "dl_commit", "dl_tomaster",
               "dl_merge", "cl_checkout", "cl_commit",
               "ld_reset", "ld_read", "ld_back"}

\* C5: the checkout/write/commit/merge/cleanse sequences of download,
\* cleanse_master and load_song_content hold an exclusive lock on the library:
\* at most one such sequence is in progress at any time.
C5_ExclusiveLock ==
    \A p, q \in Procs : p # q => ~(InSequence(p) /\ InSequence(q))

IsImportOrSong(it) == Entry(it) \in {"import", "song"}

\* C6: between calls, songs() yields one Song per "import" or "song" entry of
\* the canonical history, in history order, each with the entry's metadata.
C6_SongsReplay ==
    AtRest =>
       LET h == commit_data_history(repo, initial_branch)
           want == SelectSeq(h, IsImportOrSong)
       IN  /\ ~songs(repo, initial_branch).raised
           /\ songs(repo, initial_branch).value
                 = [i \in DOMAIN want |-> MetaFromDetails(Details(want[i]))]

\* C7: whatever commits the canonical branch holds, songs(), get_song() and
\* exists_in_history() never raise: a message that does not decode to an
\* object with an "entry" is skipped.
C7_ReplayNeverRaises ==
    /\ ~songs(repo, initial_branch).raised
    /\ \A id \in Snowflakes : ~get_song(repo, initial_branch, id).raised
    /\ \A meta \in MetaInputs : ~exists_in_history(repo, initial_branch, meta).raised

\* C9: every commit the library writes has the prefix followed by a JSON
\* object with exactly the keys "entry" and "details", the entry being one of
\* "init", "import", "song", "cleanse".
C9_EveryCommitIsEntry ==
    \A c \in DOMAIN repo.commits :
       repo.commits[c].author = Actor =>
          /\ repo.commits[c].message.prefix = prefix
          /\ repo.commits[c].message.text.kind = "object"
          /\ DOMAIN repo.commits[c].message.text.value = {"entry", "details"}
          /\ repo.commits[c].message.text.value.entry
                \in {"init", "import", "song", "cleanse"}

PreCommit == {"dl_checkout", "dl_fetch", "dl_tag", "dl_add"}

SameCanonicalHistory(r1, r2, ib) ==
    /\ r2.branches[ib] = r1.branches[ib]
    /\ Chain(r2, r2.branches[ib]) = Chain(r1, r1.branches[ib])
    /\ \A c \in Ancestors(r1, r1.branches[ib]) : r2.commits[c] = r1.commits[c]

\* C8: no step of download that comes before its commit (the branch checkout,
\* the fetch or upload write, the tag writing, the staging), whether it fails
\* or not, adds a commit to the canonical branch or moves its head; so a
\* download that fails there leaves the canonical history as it was.
C8_FailedDownloadLeavesCanonical ==
    [][\A p \in Procs :
          args[p].op = "download" /\ pc[p] \in PreCommit /\ pc'[p] # pc[p] =>
             SameCanonicalHistory(repo, repo', initial_branch)]_vars

\* a download with history behind it has failed in the tag writer
C8_Witness ==
    \E p \in Procs :
       /\ Raised(p, "download")
       /\ args[p].at = "dl_tag"
       /\ Len(CanonicalSongs) > 0

\* C10: from any reachable repository state, a cleanse_master() that follows
\* a cleanse_master() never raises and is a commit-equivalent no-op: head,
\* index, working tree and branches are as the first call left them, except
\* that the canonical branch gains one "cleanse" commit whose tree is its
\* parent's.
C10_CleanseIdempotent ==
    LET one == cleanse_master(repo, initial_branch)
        two == cleanse_master(one.repo, initial_branch)
    IN  IF one.ok
        THEN /\ two.ok
             /\ two.repo =
                  [one.repo EXCEPT
                     !.commits = Append(@,
                        [parent |-> one.repo.branches[initial_branch],
                         message |-> CleanseMessage,
                         author |-> Actor,
                         tree |-> Tree(one.repo, one.repo.branches[initial_branch])]),
                     !.branches[initial_branch] = Len(one.repo.commits) + 1]
        ELSE ~two.ok /\ two.repo = one.repo

\* cleanse_master() has returned, for the second time in a row, with a
\* binary still in the working tree
C10_Witness ==
    \E p \in Procs :
       /\ Returned(p, "cleanse")
       /\ repo.commits[Canonical].message = CleanseMessage
       /\ repo.commits[repo.commits[Canonical].parent].message = CleanseMessage
       /\ \E f \in Files : repo.wt[f] # NoFile

InitCommits ==
    {c \in Ancestors(repo, Canonical) : repo.commits[c].message = InitMessage}

\* C11: for every configured initial_branch, however often the Library is
\* opened, the canonical history holds exactly one init commit.
C11_OpenIdempotent == Cardinality(InitCommits) = 1

\* The identities of the items the canonical history records
HistoryIdentities ==
    {SnowflakeOf(c) : c \in SongCommits \cap Ancestors(repo, Canonical)}

\* C12: an identity accepted for a new item (the generator's value, checked
\* against history and regenerated on collision) never equals the identity of
\* an item already in history.
C12_FreshIdentity ==
    \A p \in Procs :
       pc[p] = "ready" /\ args[p].op = "generate" =>
          MetaSnowflake(song[p].meta) \notin HistoryIdentities

\* The canonical history has an "import" or "song" entry with identity id
HasEntry(id) ==
    \E i \in DOMAIN commit_data_history(repo, initial_branch) :
       LET it == commit_data_history(repo, initial_branch)[i]
       IN  /\ IsImportOrSong(it)
           /\ "extras" \in DOMAIN Details(it)
           /\ Get(Details(it).extras, "snowflake") = id

\* C13: between calls, a Song with identity i is found by exists_in_history (and so by
\* load_song_content) and by get_song exactly when the canonical history has
\* an "import" or "song" entry with identity i, whatever its other metadata.
C13_FindableIffEntry ==
    AtRest =>
       \A meta \in MetaInputs :
          /\ exists_in_history(repo, initial_branch, meta).exists
                <=> HasEntry(MetaSnowflake(meta))
          /\ get_song(repo, initial_branch, MetaSnowflake(meta)).value # NoSong
                <=> HasEntry(MetaSnowflake(meta))

\* The files whose state differs between trees (or working trees) t1 and t2
Changed(t1, t2) == {f \in Files : t1[f] # t2[f]}

\* C14: with one caller at a time, every step of a download acts under the
\* one identity i of its Song, which does not change during the call: the
\* branch checked out is "song/" + i, the only file written, tagged and staged
\* is i + ".mp3", the "song" commit goes onto "song/" + i, records identity i
\* and holds i + ".mp3", and the branch merged into canonical is "song/" + i
\* (canonical fast-forwards to its head, or a merge of it is left pending, or
\* it was merged already).
C14_NamesFollowIdentity ==
    [][\A p \in Procs :
          args[p].op = "download" /\ InCall(p) /\ pc'[p] # pc[p] =>
             LET i == MetaSnowflake(song[p].meta)
             IN  /\ song'[p].meta = song[p].meta
                 /\ pc[p] = "dl_checkout" /\ pc'[p] = "dl_fetch" =>
                       repo'.head.branch = "song/" \o i
                 /\ pc[p] \in {"dl_fetch", "dl_tag"} =>
                       /\ Changed(repo.wt, repo'.wt) \subseteq {i \o ".mp3"}
                       /\ repo'.index = repo.index
                 /\ pc[p] = "dl_add" =>
                       /\ Changed(repo.index, repo'.index) \subseteq {i \o ".mp3"}
                       /\ repo'.wt = repo.wt
                 /\ pc[p] = "dl_add" /\ pc'[p] = "dl_commit" =>
                       repo'.index[i \o ".mp3"] = repo.wt[i \o ".mp3"]
                 /\ pc[p] = "dl_commit" /\ pc'[p] = "dl_tomaster" =>
                       /\ repo'.branches["song/" \o i] = Len(repo'.commits)
                       /\ Len(repo'.commits) = Len(repo.commits) + 1
                       /\ LET v == repo'.commits[Len(repo'.commits)].message.text.value
                          IN  v.entry = "song" /\ v.details.extras.snowflake = i
                       /\ Tree(repo', Len(repo'.commits))[i \o ".mp3"] # NoFile
                 /\ pc[p] = "dl_merge" /\ pc'[p] = "cl_checkout" =>
                       /\ repo'.head.branch = initial_branch
                       /\ \/ repo'.branches[initial_branch]
                                = repo.branches["song/" \o i]
                          \/ repo'.mergeHead
                          \/ repo.branches["song/" \o i]
                                \in Ancestors(repo, Canonical)]_vars

\* a download of item y has returned
C14_Witness ==
    \E p \in Procs :
       /\ Returned(p, "download")
       /\ MetaSnowflake(song[p].meta) = "y"
       /\ repo.branches["song/y"] # 0

\* The import states by the step a download is at: Unsaved (dl_checkout),
\* BranchReady (dl_fetch), ContentFetched (dl_tag, or dl_add when tags are
\* opted out), MetadataWritten (dl_add, dl_commit), Committed (dl_tomaster,
\* dl_merge), MergedToCanonical (cl_checkout, cl_commit), Cleansed (returned)
Rank(step) ==
    CASE step = "dl_checkout" -> 1
      [] step = "dl_fetch" -> 2
      [] step = "dl_tag" -> 3
      [] step = "dl_add" -> 4
      [] step = "dl_commit" -> 5
      [] step = "dl_tomaster" -> 6
      [] step = "dl_merge" -> 7
      [] step = "cl_checkout" -> 8
      [] step = "cl_commit" -> 9
      [] step = "returned" -> 10
      [] OTHER -> 0

\* C15: a download that goes on moves forward through the import states only;
\* its "song" commit is made with the content file present and staged and
\* song/<id> checked out, the merge is made after that commit with the
\* canonical branch checked out, the cleanse commit after the merge, and the
\* download returns from the cleanse with the canonical branch checked out.
C15_ImportOrder ==
    [][\A p \in Procs :
          args[p].op = "download" /\ InCall(p) /\ pc'[p] # pc[p] =>
             LET m == song[p].meta
                 tip == repo.branches[branch(m)]
             IN  /\ pc'[p] # "raised" => Rank(pc'[p]) > Rank(pc[p])
                 /\ Len(repo'.commits) > Len(repo.commits)
                       /\ repo'.commits[Len(repo'.commits)].message = SongMessage(m) =>
                       /\ pc[p] = "dl_commit"
                       /\ repo.head.branch = branch(m)
                       /\ repo.wt[filename(m)] # NoFile
                       /\ repo.index[filename(m)] = repo.wt[filename(m)]
                 /\ pc[p] = "dl_merge" /\ pc'[p] # "raised" =>
                       /\ repo.head.branch = initial_branch
                       /\ tip # 0
                       /\ repo.commits[tip].message = SongMessage(m)
                 /\ Len(repo'.commits) > Len(repo.commits)
                       /\ repo'.commits[Len(repo'.commits)].message = CleanseMessage =>
                       /\ pc[p] = "cl_commit"
                       /\ repo.head.branch = initial_branch
                       /\ ~repo.mergeHead
                 /\ pc'[p] = "returned" =>
                       pc[p] = "cl_commit" /\ repo'.head.branch = initial_branch]_vars

\* a download that wrote tags has returned
C15_Witness ==
    \E p \in Procs :
       /\ Returned(p, "download")
       /\ args[p].override_meta
       /\ repo.wt[filename(song[p].meta)].tags # <<>>
       /\ repo.commits[Canonical].message = CleanseMessage

CanonicalChain == Chain(repo, Canonical)

\* C16: when a download has returned, first or repeat, the canonical history
\* ends with one new "song" entry whose details are the item's non-empty
\* metadata followed by one "cleanse" entry, and that "song" commit, the head
\* of song/<id>, is an ancestor of the canonical HEAD.
C16_SongThenCleanse ==
    \A p \in Procs :
       Returned(p, "download") =>
          /\ Len(CanonicalChain) >= 3
          /\ repo.commits[CanonicalChain[Len(CanonicalChain)]].message
                = CleanseMessage
          /\ repo.commits[CanonicalChain[Len(CanonicalChain) - 1]].message
                = SongMessage(song[p].meta)
          /\ repo.branches[branch(song[p].meta)] \in Ancestors(repo, Canonical)

\* C17: between calls, load_song_content started with the canonical branch
\* checked out ends, on every exit path, with the canonical branch checked out
\* again, and it creates no commit and moves no branch.
C17_LoadLeavesRepository ==
    AtRest /\ repo.head.branch = initial_branch =>
       \A meta \in MetaInputs :
          LET l == load_song_content(repo, initial_branch, meta)
          IN  /\ l.repo.head = repo.head
              /\ l.repo.commits = repo.commits
              /\ l.repo.branches = repo.branches

PostCommit == {"dl_tomaster", "dl_merge", "cl_checkout", "cl_commit"}

\* p's download has made its "song" commit
Committed(p) ==
    /\ args[p].op = "download"
    /\ \/ pc[p] \in PostCommit
       \/ pc[p] = "returned"
       \/ pc[p] = "raised" /\ args[p].at \in PostCommit

\* C18: a download has made a "song" commit only if its source is one whose
\* arm obtained content in this call (the bytes supplied for "upload", the
\* bytes the adapter fetched), and the committed file holds those bytes; a
\* source outside the three, or an adapter that fetched nothing, makes no
\* "song" commit, also when song/<id> already holds a file.
C18_CommitOnlyFetchedContent ==
    \A p \in Procs :
       Committed(p) =>
          /\ args[p].source \in {"upload", "youtube"}
          /\ song[p].content # NoContent
          /\ Tree(repo, repo.branches[branch(song[p].meta)])[filename(song[p].meta)].data
                = song[p].content.data

\* C19: when a download has passed the tag step, the file carries every
\* non-empty metadata field of the song as a tag if tags were not opted out
\* (override_meta true), whether or not the metadata has a source link, and
\* is the content as obtained, with no tag written, if they were opted out.
C19_TagsWritten ==
    \A p \in Procs :
       (/\ args[p].op = "download"
        /\ pc[p] \in {"dl_add", "dl_commit"}
        /\ args[p].source \in {"upload", "youtube"}) =>
          LET tags == repo.wt[filename(song[p].meta)].tags
          IN  IF args[p].override_meta
              THEN \A f \in DOMAIN MetaDict(song[p].meta) :
                      f \in DOMAIN tags /\ tags[f] = MetaDict(song[p].meta)[f]
              ELSE repo.wt[filename(song[p].meta)] = song[p].content

\* C20: between calls the repository is at a clean canonical checkout: when
\* a download has failed before its commit, the canonical branch is checked
\* out again and the working tree holds nothing the failed attempt left
\* behind (it is as the canonical HEAD has it).
C20_CleanAfterFailure ==
    \A p \in Procs :
       Raised(p, "download") /\ args[p].at \in PreCommit =>
          /\ repo.head.branch = initial_branch
          /\ repo.wt = Tree(repo, Canonical)
          /\ repo.index = Tree(repo, Canonical)

====
